---- MODULE Spec2Model ----
(***************************************************************************)
(* A model of the kernel's concurrency and memory core:                    *)
(*   - task/simple_executor.rs : SimpleExecutor (spawn, run)               *)
(*   - task/keyboard.rs        : add_scancode, ScancodeStream, the         *)
(*                               print_keypresses task                     *)
(*   - allocator/bump.rs       : BumpAllocator behind Locked<..>           *)
(*   - memory.rs               : BootInfoFrameAllocator, translate_addr    *)
(*   - allocator.rs            : init_heap                                 *)
(*   - interrupts.rs           : keypress_interrupt_handler                *)
(*                                                                         *)
(* The main thread (kernel_main -> executor.run -> task polls) advances    *)
(* one step at a time; the keyboard interrupt runs to completion between   *)
(* any two of its steps (one core, no nested interrupts).                  *)
(*                                                                         *)
(* Scaling.  TLC's integers are 32 bits wide and the state space has to    *)
(* stay finite, so the sizes of the program are scaled down, keeping the   *)
(* relations between them that the code's behaviour depends on:            *)
(*   usize           64 bits            -> AddrBits bits                   *)
(*   HEAP_START      0x4444_4444_0000   -> 16   (a multiple of 2^18 that   *)
(*                   exceeds HEAP_SIZE; here a multiple of 2^4 > HEAP_SIZE)*)
(*   HEAP_SIZE       100 KiB            -> 6                               *)
(*   ArrayQueue::new(100)               -> Capacity                        *)
(*   u8 scancodes    0..255             -> Scancodes, two sample codes     *)
(*   page size       4096               -> PAGE_SIZE = 4                   *)
(*   page table      512 entries        -> EntriesPerTable = 2             *)
(***************************************************************************)
EXTENDS Integers, Sequences, FiniteSets

(***************************************************************************)
(* Bounds of the model.                                                    *)
(***************************************************************************)
AddrBits == 6      \* width of usize
Capacity == 2      \* capacity of the scancode ArrayQueue
MaxPush  == 3      \* keyboard interrupts in one behaviour
MaxPend  == 2      \* Pending results an abstract task gives before Ready
MaxFrame == 4      \* physical frames 0..MaxFrame-1 in an arbitrary memory map
MaxRegions == 2    \* regions in an arbitrary memory map
MaxCalls == 6      \* allocate_frame calls in one behaviour
MaxUsable == 6     \* usable frames in a memory map handed over by the bootloader
MaxStray  == 1       \* calls of dealloc for a block that is not live

(***************************************************************************)
(* Program constants (scaled, see above).                                  *)
(***************************************************************************)
HEAP_START == 16
HEAP_SIZE  == 6
PAGE_SIZE  == 4

RECURSIVE Pow2(_)
Pow2(n) == IF n = 0 THEN 1 ELSE 2 * Pow2(n - 1)

UsizeRange == Pow2(AddrBits)       \* usize::MAX + 1
UsizeMax   == UsizeRange - 1

Scancodes == {30, 48}              \* 0x1E and 0x30, the keys A and B

AbstractTasks == {"A", "B", "C"}
KbdTask       == "kbd"
Tasks         == AbstractTasks \cup {KbdTask}
NoTask        == "none"
NoWaker       == "none"
DummyWaker    == "dummy"
Null          == 0                 \* ptr::null_mut()

\* an Option: None, or Some(x)
None    == <<>>
Some(x) == <<x>>

VARIABLES
    \* SimpleExecutor and the main thread
    task_queue,    \* SimpleExecutor.task_queue: VecDeque<Task>
    cur,           \* the task popped by run() and being polled
    pc,            \* position of the main thread
    unspawned,     \* tasks kernel_main has not spawned yet
    pendLeft,      \* abstract task -> Pending results left before Ready
    pend0,         \* abstract task -> Pending results it gives in all
    \* task/keyboard.rs
    queueInit,     \* SCANCODE_QUEUE (OnceCell) is initialized
    queue,         \* contents of the ArrayQueue, oldest first
    waker,         \* the slot of WAKER (AtomicWaker)
    held,          \* the scancode popped by the recheck, before WAKER.take()
    \* interrupts.rs and the locks
    allocLocked,   \* the main thread holds the ALLOCATOR lock (inside alloc)
    blocked,       \* the lock the interrupt handler spins on, if it does
    \* allocator/bump.rs
    heap_start, heap_end, next, allocations,
    \* memory.rs
    memory_map,    \* BootInfoFrameAllocator.memory_map: the bootloader's regions
    fa_next,       \* BootInfoFrameAllocator.next
    tables,        \* physical frame -> the page table stored in it
    \* allocator.rs: init_heap
    ih_pc,         \* position of init_heap
    ih_page,       \* pages of the heap range the loop has finished
    ih_frame,      \* the frame allocated for the page being mapped
    ih_result,     \* what init_heap returned
    \* history
    fa_results,    \* what each allocate_frame call returned, in call order
    mapped,        \* (page, frame) of each map_to that returned Ok, in order
    tr,            \* the last translate_addr call: address and outcome
    spawned,       \* tasks in the order spawn() was called
    completed,     \* tasks in the order their poll returned Ready
    outcomes,      \* the branch each add_scancode call took, in call order
    pushed,        \* bytes queue.push accepted, in push order
    delivered,     \* bytes poll_next returned as Ready(Some(_)), in order
    regMark,       \* successful pushes at the last WAKER.register
    raced,         \* a push succeeded between the empty fast path and register
    kbdPhase,      \* "waiting": poll_next returned Pending and the task was
                   \* not polled since; "repolled": it was polled again and
                   \* has not registered since; "running" otherwise
    wakes,         \* calls of WAKER.wake()
    regWoken,      \* wakes that found the registration of the last register
    lastPath,      \* the path of poll_next that returned the byte being
                   \* printed: "fast" or "recheck"
    prodLocks,     \* the locks the last add_scancode call requested, in order
    irqs,          \* invocations of keypress_interrupt_handler
    eoi,           \* end-of-interrupt signals sent to the PICs
    irqTrace,      \* what the last handler invocation did, in order
    irqHeld,       \* the locks the main thread held where the last handler
                   \* invocation preempted it
    live,          \* blocks handed out by alloc and not yet freed
    op,            \* the last allocator call and the branch it took
    prev,          \* op before the last allocator call
    ret,           \* what the last alloc returned
    balance,       \* successful alloc calls minus dealloc calls, so far
    strays         \* dealloc calls made for a block that was not live

execVars  == <<task_queue, cur, pc, unspawned, pendLeft, pend0, spawned, completed>>
kbdVars   == <<queueInit, queue, waker, held, outcomes, pushed, delivered, regMark, raced,
               kbdPhase, wakes, regWoken, lastPath, prodLocks>>
irqVars   == <<allocLocked, blocked, irqs, eoi, irqTrace, irqHeld>>
allocVars == <<heap_start, heap_end, next, allocations, live, op, prev, ret,
               balance, strays>>
memVars   == <<memory_map, fa_next, tables, ih_pc, ih_page, ih_frame, ih_result,
               fa_results, mapped, tr>>
vars      == <<task_queue, cur, pc, unspawned, pendLeft, pend0, spawned, completed,
               queueInit, queue, waker, held, outcomes, pushed, delivered, regMark, raced,
               kbdPhase,
               heap_start, heap_end, next, allocations, live, op, prev, ret,
               memory_map, fa_next, tables, ih_pc, ih_page, ih_frame, ih_result,
               fa_results, mapped, tr,
               wakes, regWoken, lastPath, prodLocks, allocLocked, blocked, irqs, eoi, irqTrace, irqHeld,
               balance, strays>>

(***************************************************************************)
(* Sequence helpers.                                                       *)
(***************************************************************************)
IsPrefix(s, t) == Len(s) <= Len(t) /\ SubSeq(t, 1, Len(s)) = s

Range(s) == {s[i] : i \in 1..Len(s)}

IndexOf(s, x) == CHOOSE i \in 1..Len(s) : s[i] = x

(***************************************************************************)
(* Initial state: SimpleExecutor::new(), the statics SCANCODE_QUEUE        *)
(* (uninit) and WAKER (empty), ALLOCATOR = BumpAllocator::new().           *)
(***************************************************************************)
ExecInit(T, P) ==
    /\ task_queue = <<>>
    /\ cur = NoTask
    /\ pc = "spawn"
    /\ unspawned = T
    /\ pendLeft \in P
    /\ pend0 = pendLeft
    /\ spawned = <<>>
    /\ completed = <<>>

KbdInit ==
    /\ queueInit = FALSE
    /\ queue = <<>>
    /\ waker = NoWaker
    /\ held = None
    /\ outcomes = <<>>
    /\ pushed = <<>>
    /\ delivered = <<>>
    /\ regMark = 0
    /\ raced = FALSE
    /\ kbdPhase = "running"
    /\ wakes = 0
    /\ regWoken = 0
    /\ lastPath = "none"
    /\ prodLocks = <<>>

\* interrupts enabled by init(); no handler has run, no lock is held
IrqInit ==
    /\ allocLocked = FALSE
    /\ blocked = None
    /\ irqs = 0
    /\ eoi = 0
    /\ irqTrace = <<>>
    /\ irqHeld = {}

BumpNew ==
    /\ heap_start = 0
    /\ heap_end = 0
    /\ next = 0
    /\ allocations = 0
    /\ live = {}
    /\ op = "new"
    /\ prev = "new"
    /\ ret = None
    /\ balance = 0
    /\ strays = 0

(***************************************************************************)
(* SimpleExecutor                                                          *)
(***************************************************************************)
\* spawn: task_queue.push_back(task)
Spawn(t) ==
    /\ pc = "spawn"
    /\ t \in unspawned
    /\ task_queue' = Append(task_queue, t)
    /\ unspawned' = unspawned \ {t}
    /\ spawned' = Append(spawned, t)
    /\ UNCHANGED <<cur, pc, pendLeft, pend0, completed>>
    /\ UNCHANGED <<kbdVars, allocVars, memVars, irqVars>>

\* kernel_main calls executor.run()
StartRun ==
    /\ pc = "spawn"
    /\ pc' = "loop"
    /\ UNCHANGED <<task_queue, cur, unspawned, pendLeft, pend0, spawned, completed>>
    /\ UNCHANGED <<kbdVars, allocVars, memVars, irqVars>>

\* Mutant of RunPop: pop_back instead of pop_front.
RunPopBack ==
    /\ pc = "loop"
    /\ IF task_queue = <<>>
       THEN /\ pc' = "done"
            /\ UNCHANGED <<task_queue, cur>>
       ELSE /\ cur' = task_queue[Len(task_queue)]
            /\ task_queue' = SubSeq(task_queue, 1, Len(task_queue) - 1)
            /\ pc' = "poll"
    /\ UNCHANGED <<unspawned, pendLeft, pend0, spawned, completed>>
    /\ UNCHANGED <<kbdVars, allocVars, memVars, irqVars>>

\* Mutant of RunPop: the executor takes the waker out of WAKER when it pops a
\* task to poll.
RunPopConsume ==
    /\ pc = "loop"
    /\ IF task_queue = <<>>
       THEN /\ pc' = "done"
            /\ UNCHANGED <<task_queue, cur, waker>>
       ELSE /\ cur' = Head(task_queue)
            /\ task_queue' = Tail(task_queue)
            /\ waker' = NoWaker
            /\ pc' = "poll"
    /\ UNCHANGED <<unspawned, pendLeft, pend0, spawned, completed>>
    /\ UNCHANGED <<queueInit, queue, held, outcomes, pushed, delivered, regMark, raced,
                   kbdPhase, wakes, regWoken, lastPath, prodLocks>>
    /\ UNCHANGED <<allocVars, memVars, irqVars>>

\* run: while let Some(mut task) = self.task_queue.pop_front() { task.poll(..)
RunPop ==
    /\ pc = "loop"
    /\ IF task_queue = <<>>
       THEN /\ pc' = "done"
            /\ UNCHANGED <<task_queue, cur>>
       ELSE /\ cur' = Head(task_queue)
            /\ task_queue' = Tail(task_queue)
            /\ pc' = "poll"
    /\ UNCHANGED <<unspawned, pendLeft, pend0, spawned, completed>>
    /\ UNCHANGED <<kbdVars, allocVars, memVars, irqVars>>

\* Task::poll of a task whose future gives pendLeft Pending results, then Ready
PollAbstract ==
    /\ pc = "poll"
    /\ cur \in AbstractTasks
    /\ IF pendLeft[cur] > 0
       THEN /\ pendLeft' = [pendLeft EXCEPT ![cur] = @ - 1]
            /\ pc' = "pending"
       ELSE /\ pc' = "ready"
            /\ UNCHANGED pendLeft
    /\ UNCHANGED <<task_queue, cur, unspawned, pend0, spawned, completed>>
    /\ UNCHANGED <<kbdVars, allocVars, memVars, irqVars>>

\* Mutant of MatchReady: the task that returned Ready is put back too.
MatchReadyRequeue ==
    /\ pc = "ready"
    /\ completed' = Append(completed, cur)
    /\ task_queue' = Append(task_queue, cur)
    /\ cur' = NoTask
    /\ pc' = "loop"
    /\ UNCHANGED <<unspawned, pendLeft, pend0, spawned>>
    /\ UNCHANGED <<kbdVars, allocVars, memVars, irqVars>>

\* run: Poll::Ready(()) => {}  -- the task is dropped
MatchReady ==
    /\ pc = "ready"
    /\ completed' = Append(completed, cur)
    /\ cur' = NoTask
    /\ pc' = "loop"
    /\ UNCHANGED <<task_queue, unspawned, pendLeft, pend0, spawned>>
    /\ UNCHANGED <<kbdVars, allocVars, memVars, irqVars>>

\* Mutant of MatchPending: the Pending task is not put back.
MatchPendingDrop ==
    /\ pc = "pending"
    /\ cur' = NoTask
    /\ pc' = "loop"
    /\ UNCHANGED <<task_queue, unspawned, pendLeft, pend0, spawned, completed>>
    /\ UNCHANGED <<kbdVars, allocVars, memVars, irqVars>>

\* Mutant of MatchPending: run gives up at the first Pending result (the task is
\* put back and the loop is left).
MatchPendingReturn ==
    /\ pc = "pending"
    /\ task_queue' = Append(task_queue, cur)
    /\ cur' = NoTask
    /\ pc' = "done"
    /\ UNCHANGED <<unspawned, pendLeft, pend0, spawned, completed>>
    /\ UNCHANGED <<kbdVars, allocVars, memVars, irqVars>>

\* run: Poll::Pending => self.task_queue.push_back(task)
MatchPending ==
    /\ pc = "pending"
    /\ task_queue' = Append(task_queue, cur)
    /\ cur' = NoTask
    /\ pc' = "loop"
    /\ UNCHANGED <<unspawned, pendLeft, pend0, spawned, completed>>
    /\ UNCHANGED <<kbdVars, allocVars, memVars, irqVars>>

(***************************************************************************)
(* task/keyboard.rs                                                        *)
(***************************************************************************)
\* ArrayQueue::push: Err (the queue is left as it is) when it holds Capacity items
QueueIsFull(q) == Len(q) >= Capacity

QueuePush(q, b) == Append(q, b)

\* println!: the lock its console writer takes to emit the diagnostic
println_locks == <<"CONSOLE">>

\* Mutant of add_scancode: a full queue drops its oldest byte to take the new one.
add_scancode_force(b) ==
    /\ Len(outcomes) < MaxPush
    /\ IF queueInit
       THEN /\ queue' = IF QueueIsFull(queue) THEN QueuePush(Tail(queue), b)
                                              ELSE QueuePush(queue, b)
            /\ waker' = NoWaker
            /\ wakes' = wakes + 1
            /\ regWoken' = IF waker # NoWaker THEN regWoken + 1 ELSE regWoken
            /\ prodLocks' = <<>>
            /\ outcomes' = Append(outcomes, "pushed")
            /\ pushed' = Append(pushed, b)
            /\ raced' = (raced \/ pc = "pn_register")
            /\ UNCHANGED queueInit
       ELSE /\ outcomes' = Append(outcomes, "uninit")
            /\ prodLocks' = println_locks
            /\ UNCHANGED <<queueInit, queue, waker, raced, pushed, wakes, regWoken>>
    /\ UNCHANGED <<held, delivered, regMark, kbdPhase, lastPath>>
    /\ UNCHANGED <<execVars, allocVars, memVars>>

\* Mutant of add_scancode: the handler creates the queue when it is missing
\* (get_or_init, which allocates) and pushes into it.
add_scancode_lazy_init(b) ==
    /\ Len(outcomes) < MaxPush
    /\ IF ~queueInit /\ allocLocked
       THEN \* ArrayQueue::new spins on the ALLOCATOR lock
            /\ outcomes' = Append(outcomes, "blocked")
            /\ prodLocks' = <<"ALLOCATOR">>
            /\ UNCHANGED <<queueInit, queue, waker, raced, pushed, wakes, regWoken>>
       ELSE /\ queueInit' = TRUE
            /\ IF QueueIsFull(queue)
               THEN /\ outcomes' = Append(outcomes, "full")
                    /\ prodLocks' = (IF queueInit THEN <<>> ELSE <<"ALLOCATOR">>)
                                        \o println_locks
                    /\ UNCHANGED <<queue, waker, raced, pushed, wakes, regWoken>>
               ELSE /\ queue' = QueuePush(queue, b)
                    /\ waker' = NoWaker
                    /\ wakes' = wakes + 1
                    /\ regWoken' = IF waker # NoWaker THEN regWoken + 1 ELSE regWoken
                    /\ prodLocks' = IF queueInit THEN <<>> ELSE <<"ALLOCATOR">>
                    /\ outcomes' = Append(outcomes, "pushed")
                    /\ pushed' = Append(pushed, b)
                    /\ raced' = (raced \/ pc = "pn_register")
    /\ UNCHANGED <<held, delivered, regMark, kbdPhase, lastPath>>
    /\ UNCHANGED <<execVars, allocVars, memVars>>

\* Mutant of add_scancode: the diagnostics are built with format!, which
\* allocates, before they are printed.
add_scancode_alloc_diag(b) ==
    /\ Len(outcomes) < MaxPush
    /\ IF queueInit /\ ~QueueIsFull(queue)
       THEN /\ queue' = QueuePush(queue, b)
            /\ waker' = NoWaker
            /\ wakes' = wakes + 1
            /\ regWoken' = IF waker # NoWaker THEN regWoken + 1 ELSE regWoken
            /\ prodLocks' = <<>>
            /\ outcomes' = Append(outcomes, "pushed")
            /\ pushed' = Append(pushed, b)
            /\ raced' = (raced \/ pc = "pn_register")
       ELSE /\ outcomes' = Append(outcomes, IF queueInit THEN "full" ELSE "uninit")
            /\ prodLocks' = <<"ALLOCATOR">> \o println_locks
            /\ UNCHANGED <<queue, waker, raced, pushed, wakes, regWoken>>
    /\ UNCHANGED <<queueInit, held, delivered, regMark, kbdPhase, lastPath>>
    /\ UNCHANGED <<execVars, allocVars, memVars>>

\* Mutant of add_scancode: WAKER.wake() is called after the if, whatever the
\* push returned.
add_scancode_wake_always(b) ==
    /\ Len(outcomes) < MaxPush
    /\ IF queueInit /\ ~QueueIsFull(queue)
       THEN /\ queue' = QueuePush(queue, b)
            /\ prodLocks' = <<>>
            /\ outcomes' = Append(outcomes, "pushed")
            /\ pushed' = Append(pushed, b)
            /\ raced' = (raced \/ pc = "pn_register")
       ELSE /\ outcomes' = Append(outcomes, IF queueInit THEN "full" ELSE "uninit")
            /\ prodLocks' = println_locks
            /\ UNCHANGED <<queue, raced, pushed>>
    /\ waker' = NoWaker
    /\ wakes' = wakes + 1
    /\ regWoken' = IF waker # NoWaker THEN regWoken + 1 ELSE regWoken
    /\ UNCHANGED <<queueInit, held, delivered, regMark, kbdPhase, lastPath>>
    /\ UNCHANGED <<execVars, allocVars, memVars>>

\* add_scancode, called by keypress_interrupt_handler with the byte read from
\* port 0x60
add_scancode(b) ==
    /\ Len(outcomes) < MaxPush
    /\ IF queueInit
       THEN IF QueueIsFull(queue)
            THEN \* println!("WARNING: scancode queue full; ...")
                 /\ outcomes' = Append(outcomes, "full")
                 /\ prodLocks' = println_locks
                 /\ UNCHANGED <<queue, waker, raced, pushed, wakes, regWoken>>
            ELSE \* WAKER.wake(): takes the registered waker out of the slot
                 \* and wakes it; the executor's waker is a no-op
                 /\ queue' = QueuePush(queue, b)
                 /\ waker' = NoWaker
                 /\ wakes' = wakes + 1
                 /\ regWoken' = IF waker # NoWaker THEN regWoken + 1 ELSE regWoken
                 /\ prodLocks' = <<>>
                 /\ outcomes' = Append(outcomes, "pushed")
                 /\ pushed' = Append(pushed, b)
                 /\ raced' = (raced \/ pc = "pn_register")
       ELSE \* println!("WARNING: scancode queue uninitialized; ...")
            /\ outcomes' = Append(outcomes, "uninit")
            /\ prodLocks' = println_locks
            /\ UNCHANGED <<queue, waker, raced, pushed, wakes, regWoken>>
    /\ UNCHANGED <<queueInit, held, delivered, regMark, kbdPhase, lastPath>>
    /\ UNCHANGED <<execVars, allocVars, memVars>>

\* The first poll of print_keypresses, ScancodeStream::new(): inside
\* try_init_once, ArrayQueue::new(100) allocates its buffer; the main thread is
\* in GlobalAlloc::alloc and holds the ALLOCATOR lock, with interrupts enabled
KbdNewAlloc ==
    /\ pc = "poll"
    /\ cur = KbdTask
    /\ ~queueInit
    /\ ~allocLocked
    /\ allocLocked' = TRUE
    /\ UNCHANGED <<blocked, irqs, eoi, irqTrace, irqHeld>>
    /\ UNCHANGED <<execVars, kbdVars, allocVars, memVars>>

\* Task::poll of print_keypresses.  The first poll finishes ScancodeStream::new()
\* (the allocation returns, the queue is stored in SCANCODE_QUEUE) and reaches
\* scancodes.next().await; a later poll resumes at that await.  Both continue
\* in poll_next, whose SCANCODE_QUEUE.try_get() then succeeds.
KbdPoll ==
    /\ pc = "poll"
    /\ cur = KbdTask
    /\ queueInit \/ allocLocked
    /\ queueInit' = TRUE
    /\ allocLocked' = FALSE
    /\ kbdPhase' = IF kbdPhase = "waiting" THEN "repolled" ELSE kbdPhase
    /\ pc' = "pn_pop1"
    /\ UNCHANGED <<queue, waker, held, outcomes, pushed, delivered, regMark, raced>>
    /\ UNCHANGED <<wakes, regWoken, lastPath, prodLocks>>
    /\ UNCHANGED <<task_queue, cur, unspawned, pendLeft, pend0, spawned, completed>>
    /\ UNCHANGED <<blocked, irqs, eoi, irqTrace, irqHeld>>
    /\ UNCHANGED <<allocVars, memVars>>

\* poll_next, fast path: if let Ok(scancode) = queue.pop() { return Ready }.
\* On Ready the loop body of print_keypresses runs.
PnPop1 ==
    /\ pc = "pn_pop1"
    /\ IF queue # <<>>
       THEN /\ delivered' = Append(delivered, Head(queue))
            /\ lastPath' = "fast"
            /\ queue' = Tail(queue)
            /\ pc' = "print"
       ELSE /\ pc' = "pn_register"
            /\ UNCHANGED <<queue, delivered, lastPath>>
    /\ UNCHANGED <<queueInit, waker, held, outcomes, pushed, regMark, raced, kbdPhase>>
    /\ UNCHANGED <<wakes, regWoken, prodLocks>>
    /\ UNCHANGED <<task_queue, cur, unspawned, pendLeft, pend0, spawned, completed>>
    /\ UNCHANGED <<allocVars, memVars, irqVars>>

\* poll_next: WAKER.register(&cx.waker()); the slot holds the new waker in
\* place of what it held
PnRegister ==
    /\ pc = "pn_register"
    /\ waker' = DummyWaker
    /\ regMark' = Len(pushed)
    /\ regWoken' = 0
    /\ kbdPhase' = "running"
    /\ pc' = "pn_pop2"
    /\ UNCHANGED <<queueInit, queue, held, outcomes, pushed, delivered, raced>>
    /\ UNCHANGED <<wakes, lastPath, prodLocks>>
    /\ UNCHANGED <<task_queue, cur, unspawned, pendLeft, pend0, spawned, completed>>
    /\ UNCHANGED <<allocVars, memVars, irqVars>>

\* Mutant of PnPop2: Pending right after register, without the second pop.
PnPop2NoRecheck ==
    /\ pc = "pn_pop2"
    /\ pc' = "pending"
    /\ kbdPhase' = "waiting"
    /\ UNCHANGED <<queue, held, raced>>
    /\ UNCHANGED <<queueInit, waker, outcomes, pushed, delivered, regMark>>
    /\ UNCHANGED <<wakes, regWoken, lastPath, prodLocks>>
    /\ UNCHANGED <<task_queue, cur, unspawned, pendLeft, pend0, spawned, completed>>
    /\ UNCHANGED <<allocVars, memVars, irqVars>>

\* poll_next: match queue.pop() { Ok(scancode) => .., Err(PopError) => Pending }
PnPop2 ==
    /\ pc = "pn_pop2"
    /\ IF queue # <<>>
       THEN /\ held' = Some(Head(queue))
            /\ queue' = Tail(queue)
            /\ pc' = "pn_take"
            /\ UNCHANGED <<kbdPhase, raced>>
       ELSE /\ pc' = "pending"
            /\ kbdPhase' = "waiting"
            /\ UNCHANGED <<queue, held, raced>>
    /\ UNCHANGED <<queueInit, waker, outcomes, pushed, delivered, regMark>>
    /\ UNCHANGED <<wakes, regWoken, lastPath, prodLocks>>
    /\ UNCHANGED <<task_queue, cur, unspawned, pendLeft, pend0, spawned, completed>>
    /\ UNCHANGED <<allocVars, memVars, irqVars>>

\* Mutant of PnTake: the byte popped by the recheck is not returned.
PnTakeLost ==
    /\ pc = "pn_take"
    /\ waker' = NoWaker
    /\ held' = None
    /\ raced' = FALSE
    /\ pc' = "pn_pop1"
    /\ UNCHANGED <<queueInit, queue, outcomes, pushed, delivered, regMark, kbdPhase>>
    /\ UNCHANGED <<wakes, regWoken, lastPath, prodLocks>>
    /\ UNCHANGED <<task_queue, cur, unspawned, pendLeft, pend0, spawned, completed>>
    /\ UNCHANGED <<allocVars, memVars, irqVars>>

\* Mutant of PnTake: Ready is returned without WAKER.take().
PnTakeKeep ==
    /\ pc = "pn_take"
    /\ delivered' = delivered \o held
    /\ lastPath' = "recheck"
    /\ held' = None
    /\ raced' = FALSE
    /\ pc' = "print"
    /\ UNCHANGED <<queueInit, queue, waker, outcomes, pushed, regMark, kbdPhase>>
    /\ UNCHANGED <<wakes, regWoken, prodLocks>>
    /\ UNCHANGED <<task_queue, cur, unspawned, pendLeft, pend0, spawned, completed>>
    /\ UNCHANGED <<allocVars, memVars, irqVars>>

\* poll_next: WAKER.take(); Poll::Ready(Some(scancode))
PnTake ==
    /\ pc = "pn_take"
    /\ waker' = NoWaker
    /\ delivered' = delivered \o held
    /\ lastPath' = "recheck"
    /\ held' = None
    /\ raced' = FALSE
    /\ pc' = "print"
    /\ UNCHANGED <<queueInit, queue, outcomes, pushed, regMark, kbdPhase>>
    /\ UNCHANGED <<wakes, regWoken, prodLocks>>
    /\ UNCHANGED <<task_queue, cur, unspawned, pendLeft, pend0, spawned, completed>>
    /\ UNCHANGED <<allocVars, memVars, irqVars>>

\* print_keypresses, loop body: the scancode is decoded and the key printed
\* with print!; then scancodes.next().await calls poll_next again
PrintKey ==
    /\ pc = "print"
    /\ pc' = "pn_pop1"
    /\ lastPath' = "none"
    /\ UNCHANGED <<queueInit, queue, waker, held, outcomes, pushed, delivered, regMark, raced,
                   kbdPhase, wakes, regWoken, prodLocks>>
    /\ UNCHANGED <<task_queue, cur, unspawned, pendLeft, pend0, spawned, completed>>
    /\ UNCHANGED <<allocVars, memVars, irqVars>>

(***************************************************************************)
(* interrupts.rs: keypress_interrupt_handler                               *)
(*                                                                         *)
(* The handler runs with interrupts disabled, to completion, between two   *)
(* steps of the main thread.  A spin lock it requests while the main       *)
(* thread holds it is never released: the handler spins forever, and       *)
(* blocked is never reset.                                                 *)
(***************************************************************************)
\* the console's lock is held by print! while interrupts are enabled
ConsoleLockPreemptible == FALSE

\* the locks held by the code an interrupt preempts at this point
MainHeld ==
    (IF allocLocked THEN {"ALLOCATOR"} ELSE {}) \cup
    (IF ConsoleLockPreemptible /\ pc = "print" THEN {"CONSOLE"} ELSE {})

\* the first lock of the sequence that the preempted code holds, if any
RECURSIVE FirstHeld(_)
FirstHeld(locks) ==
    IF locks = <<>> THEN None
    ELSE IF Head(locks) \in MainHeld THEN Some(Head(locks))
    ELSE FirstHeld(Tail(locks))

\* Mutant of keypress_interrupt_handler: the decoded key is boxed (a heap
\* allocation) before add_scancode is called.
keypress_interrupt_handler_boxed(b) ==
    /\ blocked = None
    /\ irqs' = irqs + 1
    /\ irqHeld' = MainHeld
    /\ IF allocLocked
       THEN /\ blocked' = Some("ALLOCATOR")
            /\ irqTrace' = <<"KEYBOARD", "read", "ALLOCATOR">>
            /\ UNCHANGED <<eoi, allocLocked>>
            /\ UNCHANGED <<execVars, kbdVars, allocVars, memVars>>
       ELSE /\ add_scancode(b)
            /\ blocked' = FirstHeld(prodLocks')
            /\ irqTrace' = <<"KEYBOARD", "read", "ALLOCATOR", "add_scancode">> \o prodLocks'
                               \o <<"add_scancode_ret", "PICS", "eoi">>
            /\ eoi' = eoi + 1
            /\ UNCHANGED allocLocked

\* Mutant of keypress_interrupt_handler: the handler returns without the
\* end-of-interrupt when the scancode was dropped.
keypress_interrupt_handler_skip_eoi(b) ==
    /\ blocked = None
    /\ irqs' = irqs + 1
    /\ irqHeld' = MainHeld
    /\ add_scancode(b)
    /\ blocked' = FirstHeld(prodLocks')
    /\ IF outcomes'[Len(outcomes')] = "pushed"
       THEN /\ irqTrace' = <<"KEYBOARD", "read", "add_scancode">> \o prodLocks'
                               \o <<"add_scancode_ret", "PICS", "eoi">>
            /\ eoi' = eoi + 1
       ELSE /\ irqTrace' = <<"KEYBOARD", "read", "add_scancode">> \o prodLocks'
                               \o <<"add_scancode_ret">>
            /\ eoi' = eoi
    /\ UNCHANGED allocLocked

\* keypress_interrupt_handler: KEYBOARD.lock(); port.read(); add_scancode(b);
\* PICS.lock().notify_end_of_interrupt(..).  Only the handler takes KEYBOARD;
\* PICS is taken elsewhere only by init(), before interrupts are enabled.
keypress_interrupt_handler(b) ==
    /\ blocked = None
    /\ irqs' = irqs + 1
    /\ irqHeld' = MainHeld
    /\ add_scancode(b)
    /\ blocked' = FirstHeld(prodLocks')
    /\ IF FirstHeld(prodLocks') = None
       THEN /\ irqTrace' = <<"KEYBOARD", "read", "add_scancode">> \o prodLocks'
                               \o <<"add_scancode_ret", "PICS", "eoi">>
            /\ eoi' = eoi + 1
       ELSE /\ irqTrace' = <<"KEYBOARD", "read", "add_scancode">> \o prodLocks'
            /\ eoi' = eoi
    /\ UNCHANGED allocLocked

(***************************************************************************)
(* memory.rs: BootInfoFrameAllocator                                       *)
(*                                                                         *)
(* Scaling: a 4 KiB page is PAGE_SIZE bytes; a physical frame is named by  *)
(* its number, its start address is number * PAGE_SIZE.                    *)
(***************************************************************************)
\* a MemoryRegion of the bootloader's memory map: the frames start..end-1
\* (FrameRange) and whether region_type is MemoryRegionType::Usable
Region(s, e, u) == [start |-> s, end |-> e, usable |-> u]

\* FrameRange::start_addr, FrameRange::end_addr
start_addr(r) == r.start * PAGE_SIZE
end_addr(r)   == r.end * PAGE_SIZE

\* PhysFrame::containing_address
containing_address(a) == a \div PAGE_SIZE

\* (start..end).step_by(4096)
RECURSIVE step_by(_, _)
step_by(a, e) == IF a >= e THEN <<>> ELSE <<a>> \o step_by(a + PAGE_SIZE, e)

\* usable_frames: the Usable regions, in map order, each turned into its
\* address range, flattened into addresses one page apart, each turned into
\* the frame containing it
RECURSIVE usable_frames(_)
usable_frames(mm) ==
    IF mm = <<>>
    THEN <<>>
    ELSE LET r     == Head(mm)
             addrs == IF r.usable THEN step_by(start_addr(r), end_addr(r)) ELSE <<>>
         IN  [i \in 1..Len(addrs) |-> containing_address(addrs[i])]
                 \o usable_frames(Tail(mm))

\* Iterator::nth
Nth(s, n) == IF n < Len(s) THEN Some(s[n + 1]) ELSE None

\* Mutant of allocate_frame: next is not advanced.
allocate_frame_stuck(n) ==
    [frame |-> Nth(usable_frames(memory_map), n), next |-> n]

\* allocate_frame, called with self.next = n: the frame it returns and the
\* value it leaves in self.next (next counts calls: it stays far below
\* usize::MAX)
allocate_frame(n) ==
    [frame |-> Nth(usable_frames(memory_map), n), next |-> n + 1]

\* a call of allocate_frame by any holder of the allocator
AllocateFrameCall ==
    /\ Len(fa_results) < MaxCalls
    /\ LET r == allocate_frame(fa_next)
       IN  /\ fa_next' = r.next
           /\ fa_results' = Append(fa_results, r.frame)
    /\ UNCHANGED <<memory_map, tables, ih_pc, ih_page, ih_frame, ih_result, mapped, tr>>
    /\ UNCHANGED <<execVars, kbdVars, allocVars, irqVars>>

SeqsUpTo(S, n) == UNION {[1..k -> S] : k \in 0..n}

\* the regions of an arbitrary memory map: any usable range, and reserved
\* single frames
Regions ==
    {Region(s, e, TRUE) : s \in 0..MaxFrame, e \in 0..MaxFrame} \cup
    {Region(s, s + 1, FALSE) : s \in 0..(MaxFrame - 1)}

MemoryMaps == {mm \in SeqsUpTo(Regions, MaxRegions) : \A i \in 1..Len(mm) : mm[i].start <= mm[i].end}

(***************************************************************************)
(* memory.rs: page tables and translate_addr; the mapper's map_to          *)
(*                                                                         *)
(* Scaling: a virtual address is four table indexes and a page offset;     *)
(* the 512 entries of a table become EntriesPerTable, the 12 offset bits   *)
(* become PAGE_SIZE = 4 bytes.  The complete physical memory is mapped at  *)
(* phy_mem_offset, so the table stored in a frame is read from tables.     *)
(***************************************************************************)
EntriesPerTable == 2
Cr3Frame   == 0        \* Cr3::read(): the frame of the active level 4 table
BootFrames == 5        \* frames 0..BootFrames-1 hold what the bootloader set up

VirtAddrs ==
    0..(PAGE_SIZE * EntriesPerTable * EntriesPerTable * EntriesPerTable * EntriesPerTable - 1)

\* a page table entry; an unused entry is all zero
UnusedEntry    == [present |-> FALSE, writable |-> FALSE, huge |-> FALSE, frame |-> 0]
\* PageTableEntry::set_frame(frame, PRESENT | WRITABLE)
MappedEntry(f) == [present |-> TRUE, writable |-> TRUE, huge |-> FALSE, frame |-> f]
\* a present entry with the HUGE_PAGE flag
HugeEntry(f)   == [present |-> TRUE, writable |-> TRUE, huge |-> TRUE, frame |-> f]

is_unused(e) == e = UnusedEntry

\* PageTable::zero
EmptyTable == [i \in 0..(EntriesPerTable - 1) |-> UnusedEntry]

\* VirtAddr::page_offset
page_offset(a) == a % PAGE_SIZE

\* [addr.p4_index(), addr.p3_index(), addr.p2_index(), addr.p1_index()]
table_indexes(a) ==
    LET pg == a \div PAGE_SIZE
        E  == EntriesPerTable
    IN  <<(pg \div (E * E * E)) % E, (pg \div (E * E)) % E, (pg \div E) % E, pg % E>>

\* Mutant of walk: entry.frame() tests the huge flag before the present flag.
RECURSIVE walk_huge_first(_, _, _, _)
walk_huge_first(tabs, f, idxs, n) ==
    LET entry == tabs[f][Head(idxs)]
    IN  IF entry.huge
        THEN [res |-> "panic", frame |-> None, reads |-> n + 1, leaf |-> entry]
        ELSE IF ~entry.present
        THEN [res |-> "none", frame |-> None, reads |-> n + 1, leaf |-> entry]
        ELSE IF Len(idxs) = 1
        THEN [res |-> "some", frame |-> Some(entry.frame), reads |-> n + 1, leaf |-> entry]
        ELSE walk_huge_first(tabs, entry.frame, Tail(idxs), n + 1)

\* the loop of translate_addr_inner from the table in frame f on: idxs are the
\* indexes not yet used, n the entries read so far.  entry.frame() is
\* FrameNotPresent for an entry that is not present, HugeFrame for a present
\* entry with the huge flag.
RECURSIVE walk(_, _, _, _)
walk(tabs, f, idxs, n) ==
    LET entry == tabs[f][Head(idxs)]
    IN  IF ~entry.present
        THEN [res |-> "none", frame |-> None, reads |-> n + 1, leaf |-> entry]
        ELSE IF entry.huge
        THEN [res |-> "panic", frame |-> None, reads |-> n + 1, leaf |-> entry]
        ELSE IF Len(idxs) = 1
        THEN [res |-> "some", frame |-> Some(entry.frame), reads |-> n + 1, leaf |-> entry]
        ELSE walk(tabs, entry.frame, Tail(idxs), n + 1)

\* Mutant of translate_addr_inner: the tables are walked with the indexes in
\* the order p1..p4.
translate_addr_inner_reversed(tabs, addr) ==
    LET idx == table_indexes(addr)
        w   == walk(tabs, Cr3Frame, <<idx[4], idx[3], idx[2], idx[1]>>, 0)
    IN  [res   |-> w.res,
         addr  |-> IF w.res = "some"
                   THEN Some(w.frame[1] * PAGE_SIZE + page_offset(addr))
                   ELSE None,
         reads |-> w.reads,
         leaf  |-> w.leaf]

\* translate_addr_inner: Some(frame.start_address() + page_offset), None, or
\* panic!("huge pages not supported")
translate_addr_inner(tabs, addr) ==
    LET w == walk(tabs, Cr3Frame, table_indexes(addr), 0)
    IN  [res   |-> w.res,
         addr  |-> IF w.res = "some"
                   THEN Some(w.frame[1] * PAGE_SIZE + page_offset(addr))
                   ELSE None,
         reads |-> w.reads,
         leaf  |-> w.leaf]

\* translate_addr(addr, phy_mem_offset)
TranslateAddr(a) ==
    /\ tr' = Some([addr |-> a, out |-> translate_addr_inner(tables, a)])
    /\ UNCHANGED <<memory_map, fa_next, tables, ih_pc, ih_page, ih_frame, ih_result,
                   fa_results, mapped>>
    /\ UNCHANGED <<execVars, kbdVars, allocVars, irqVars>>

\* The mapper's create_next_table for entry idx of the table in frame m.tbl:
\* an unused entry gets a frame from the frame allocator, which is zeroed; an
\* entry with the huge flag is an error; otherwise the table it points to is
\* used.  m carries the tables, the allocator's next, the allocator's results
\* and the error of map_to so far.
create_next_table(m, idx) ==
    IF m.err # None
    THEN m
    ELSE LET entry == m.tabs[m.tbl][idx]
         IN  IF is_unused(entry)
             THEN LET r == allocate_frame(m.next)
                  IN  IF r.frame = None
                      THEN [m EXCEPT !.next = r.next,
                                     !.outs = Append(@, r.frame),
                                     !.err  = Some("FrameAllocationFailed")]
                      ELSE [m EXCEPT !.next = r.next,
                                     !.outs = Append(@, r.frame),
                                     !.tabs = [g \in DOMAIN m.tabs \cup {r.frame[1]} |->
                                                 IF g = r.frame[1] THEN EmptyTable
                                                 ELSE IF g = m.tbl
                                                 THEN [m.tabs[g] EXCEPT
                                                          ![idx] = MappedEntry(r.frame[1])]
                                                 ELSE m.tabs[g]],
                                     !.tbl  = r.frame[1]]
             ELSE IF entry.huge
             THEN [m EXCEPT !.err = Some("ParentEntryHugePage")]
             ELSE [m EXCEPT !.tbl = entry.frame]

\* mapper.map_to(page, frame, PRESENT | WRITABLE, frame_allocator) with
\* self.next = n: the three parent tables are walked or created, then the
\* level 1 entry is set unless it is in use
map_to(tabs, n, page, frame) ==
    LET idx == table_indexes(page * PAGE_SIZE)
        m4  == [tabs |-> tabs, next |-> n, outs |-> <<>>, tbl |-> Cr3Frame, err |-> None]
        m3  == create_next_table(m4, idx[1])
        m2  == create_next_table(m3, idx[2])
        m1  == create_next_table(m2, idx[3])
    IN  IF m1.err # None
        THEN m1
        ELSE IF ~is_unused(m1.tabs[m1.tbl][idx[4]])
        THEN [m1 EXCEPT !.err = Some("PageAlreadyMapped")]
        ELSE [m1 EXCEPT !.tabs[m1.tbl][idx[4]] = MappedEntry(frame)]

(***************************************************************************)
(* What the bootloader hands over (BootInfo): the memory map and the       *)
(* active page tables.                                                     *)
(***************************************************************************)
\* a memory map: the bootloader's own frames, then k usable frames with a
\* reserved frame after the first j of them
BootMemoryMap(j, k) ==
    <<Region(0, BootFrames, FALSE),
      Region(BootFrames, BootFrames + j, TRUE),
      Region(BootFrames + j, BootFrames + j + 1, FALSE),
      Region(BootFrames + j + 1, BootFrames + 1 + k, TRUE)>>

BootMemoryMaps ==
    UNION {{BootMemoryMap(j, k) : j \in 0..k} : k \in 0..MaxUsable}

\* the table indexes of the first and of the last page of the heap
HeapIdx     == table_indexes(HEAP_START)
HeapLastIdx == table_indexes(HEAP_START + HEAP_SIZE - 1)
Other(i)    == (i + 1) % EntriesPerTable

TableWith(i, e) == [EmptyTable EXCEPT ![i] = e]

\* nothing is mapped near the heap
BootTablesEmpty == [f \in {Cr3Frame} |-> EmptyTable]

\* a huge page next to the heap range, under the same level 4 entry
BootTablesHugeSibling ==
    [f \in {Cr3Frame, 1} |->
        IF f = Cr3Frame THEN TableWith(HeapIdx[1], MappedEntry(1))
        ELSE TableWith(Other(HeapIdx[2]), HugeEntry(2))]

\* the heap range lies inside a huge page
BootTablesHugeParent ==
    [f \in {Cr3Frame, 1} |->
        IF f = Cr3Frame THEN TableWith(HeapIdx[1], MappedEntry(1))
        ELSE TableWith(HeapIdx[2], HugeEntry(2))]

\* the last page of the heap range is mapped already
BootTablesPageMapped ==
    [f \in {Cr3Frame, 1, 2, 3} |->
        IF f = Cr3Frame THEN TableWith(HeapLastIdx[1], MappedEntry(1))
        ELSE IF f = 1 THEN TableWith(HeapLastIdx[2], MappedEntry(2))
        ELSE IF f = 2 THEN TableWith(HeapLastIdx[3], MappedEntry(3))
        ELSE TableWith(HeapLastIdx[4], MappedEntry(4))]

BootTables ==
    {BootTablesEmpty, BootTablesHugeSibling, BootTablesHugeParent, BootTablesPageMapped}

\* an entry that is not present but keeps other bits: the frame and flags of
\* a page that was unmapped by clearing PRESENT alone
StaleEntry(f)     == [present |-> FALSE, writable |-> TRUE, huge |-> FALSE, frame |-> f]
StaleHugeEntry(f) == [present |-> FALSE, writable |-> TRUE, huge |-> TRUE, frame |-> f]

\* what the entry of a table that points to frame f may hold
EntryKinds(f) ==
    {UnusedEntry, MappedEntry(f), HugeEntry(f), StaleEntry(f), StaleHugeEntry(f)}

\* one chain of tables P4 (frame Cr3Frame), P3, P2, P1 (frames 1, 2, 3) along
\* the indexes of the heap's first page: the entry on the chain at each level
\* is es[level], every other entry is unused
WalkTable(es) ==
    [f \in Cr3Frame..(Cr3Frame + 3) |-> TableWith(HeapIdx[f + 1], es[f + 1])]

WalkTables ==
    {WalkTable(<<e1, e2, e3, e4>>) :
        e1 \in EntryKinds(1), e2 \in EntryKinds(2),
        e3 \in EntryKinds(3), e4 \in EntryKinds(4)}

\* BootInfoFrameAllocator::init (next: 0) over one of the maps, one of the
\* page tables active, init_heap not yet called
MemInit(maps, tabs) ==
    /\ memory_map \in maps
    /\ fa_next = 0
    /\ tables \in tabs
    /\ ih_pc = "alloc"
    /\ ih_page = 0
    /\ ih_frame = None
    /\ ih_result = None
    /\ fa_results = <<>>
    /\ mapped = <<>>
    /\ tr = None

(***************************************************************************)
(* allocator.rs, allocator/bump.rs                                         *)
(***************************************************************************)
\* core::alloc::Layout: align is a power of two and size, rounded up to a
\* multiple of align, does not overflow usize; GlobalAlloc::alloc is only
\* called with a size that is not zero.
Aligns == {Pow2(k) : k \in 0..(AddrBits - 1)}

\* The sizes tried: every size up to one more than the heap's, the largest
\* sizes that still do not pass usize::MAX from the heap's end and from its
\* start, and usize::MAX itself.
Sizes ==
    (1..(HEAP_SIZE + 1))
        \cup {UsizeMax - HEAP_START - HEAP_SIZE, UsizeMax - HEAP_START, UsizeMax}

Layouts ==
    {l \in [size : Sizes, align : Aligns] : l.size + (l.align - 1) <= UsizeMax}

\* Mutant of align_up: (addr + align) & !(align - 1), which moves an address
\* that is aligned already to the next multiple.
align_up_past(addr, align) ==
    LET sum == (addr + align) % UsizeRange
    IN  sum - (sum % align)

\* fn align_up(addr, align) -> usize { (addr + align - 1) & !(align - 1) }
\* for align a power of two; the addition wraps at the width of usize.
align_up(addr, align) ==
    LET sum == (addr + align - 1) % UsizeRange
    IN  sum - (sum % align)

Block(start, l) == [start |-> start, size |-> l.size]

\* Page::containing_address
PageOf(a) == a \div PAGE_SIZE

\* Mutant of HeapPages: Page::range, which leaves out the end page.
HeapPagesExclusive ==
    LET heap_start_page == PageOf(HEAP_START)
        heap_end_page   == PageOf(HEAP_START + HEAP_SIZE - 1)
    IN  [i \in 1..(heap_end_page - heap_start_page) |-> heap_start_page + i - 1]

\* init_heap: page_range = Page::range_inclusive(heap_start_page, heap_end_page)
HeapPages ==
    LET heap_start_page == PageOf(HEAP_START)
        heap_end_page   == PageOf(HEAP_START + HEAP_SIZE - 1)
    IN  [i \in 1..(heap_end_page - heap_start_page + 1) |-> heap_start_page + i - 1]

\* Mutant of InitHeapAlloc: a page that gets no frame is skipped.
InitHeapAllocSkip ==
    /\ ih_pc = "alloc"
    /\ LET r == allocate_frame(fa_next)
       IN  /\ fa_next' = r.next
           /\ fa_results' = Append(fa_results, r.frame)
           /\ IF r.frame = None
              THEN /\ ih_page' = ih_page + 1
                   /\ ih_pc' = IF ih_page + 1 = Len(HeapPages) THEN "init" ELSE "alloc"
                   /\ UNCHANGED ih_frame
              ELSE /\ ih_frame' = r.frame
                   /\ ih_pc' = "map"
                   /\ UNCHANGED ih_page
    /\ UNCHANGED <<memory_map, tables, ih_result, mapped, tr>>
    /\ UNCHANGED <<execVars, kbdVars, allocVars, irqVars>>

\* init_heap, loop body: let frame = frame_allocator.allocate_frame()
\*                           .ok_or(MapToError::FrameAllocationFailed)?;
InitHeapAlloc ==
    /\ ih_pc = "alloc"
    /\ LET r == allocate_frame(fa_next)
       IN  /\ fa_next' = r.next
           /\ fa_results' = Append(fa_results, r.frame)
           /\ IF r.frame = None
              THEN /\ ih_result' = Some("FrameAllocationFailed")
                   /\ ih_pc' = "returned"
                   /\ UNCHANGED ih_frame
              ELSE /\ ih_frame' = r.frame
                   /\ ih_pc' = "map"
                   /\ UNCHANGED ih_result
    /\ UNCHANGED <<memory_map, tables, ih_page, mapped, tr>>
    /\ UNCHANGED <<execVars, kbdVars, allocVars, irqVars>>

\* init_heap, loop body: mapper.map_to(page, frame, flags, frame_allocator)?.flush()
InitHeapMap ==
    /\ ih_pc = "map"
    /\ LET page == HeapPages[ih_page + 1]
           m    == map_to(tables, fa_next, page, ih_frame[1])
       IN  /\ tables' = m.tabs
           /\ fa_next' = m.next
           /\ fa_results' = fa_results \o m.outs
           /\ IF m.err # None
              THEN /\ ih_result' = m.err
                   /\ ih_pc' = "returned"
                   /\ UNCHANGED <<ih_page, mapped>>
              ELSE /\ mapped' = Append(mapped, [page |-> page, frame |-> ih_frame[1]])
                   /\ ih_page' = ih_page + 1
                   /\ ih_pc' = IF ih_page + 1 = Len(HeapPages) THEN "init" ELSE "alloc"
                   /\ UNCHANGED ih_result
    /\ ih_frame' = None
    /\ UNCHANGED <<memory_map, tr>>
    /\ UNCHANGED <<execVars, kbdVars, allocVars, irqVars>>

\* init_heap, after the loop: ALLOCATOR.lock().init(HEAP_START, HEAP_SIZE); Ok(())
BumpInit ==
    /\ ih_pc = "init"
    /\ op = "new"
    /\ heap_start' = HEAP_START
    /\ heap_end' = (HEAP_START + HEAP_SIZE) % UsizeRange
    /\ next' = HEAP_START
    /\ op' = "init"
    /\ prev' = op
    /\ ret' = None
    /\ UNCHANGED <<allocations, live, balance, strays>>
    /\ ih_result' = Some("Ok")
    /\ ih_pc' = "returned"
    /\ UNCHANGED <<memory_map, fa_next, tables, ih_page, ih_frame, fa_results, mapped, tr>>
    /\ UNCHANGED <<execVars, kbdVars, irqVars>>

\* Mutant of Alloc: the comparison with heap_end is missing.
AllocNoBoundCheck(l) ==
    LET alloc_start == align_up(next, l.align)
        alloc_end   == alloc_start + l.size
    IN  /\ op # "new"
        /\ prev' = op
        /\ IF alloc_end > UsizeMax
           THEN /\ op' = "alloc_overflow"
                /\ ret' = Some(Null)
                /\ UNCHANGED <<next, allocations, live, balance>>
           ELSE /\ next' = alloc_end
                /\ allocations' = (allocations + 1) % UsizeRange
                /\ balance' = balance + 1
                /\ live' = live \cup {Block(alloc_start, l)}
                /\ op' = "alloc_ok"
                /\ ret' = Some(alloc_start)
        /\ UNCHANGED <<heap_start, heap_end, strays>>
        /\ UNCHANGED <<execVars, kbdVars, memVars, irqVars>>

\* Mutant of Alloc: a failing call keeps the cursor rounded up to the alignment.
AllocPadOnFail(l) ==
    LET alloc_start == align_up(next, l.align)
        alloc_end   == alloc_start + l.size
    IN  /\ op # "new"
        /\ prev' = op
        /\ IF alloc_end > UsizeMax
           THEN /\ op' = "alloc_overflow"
                /\ ret' = Some(Null)
                /\ next' = alloc_start
                /\ UNCHANGED <<allocations, live, balance>>
           ELSE IF alloc_end > heap_end
           THEN /\ op' = "alloc_oom"
                /\ ret' = Some(Null)
                /\ next' = alloc_start
                /\ UNCHANGED <<allocations, live, balance>>
           ELSE /\ next' = alloc_end
                /\ allocations' = (allocations + 1) % UsizeRange
                /\ balance' = balance + 1
                /\ live' = live \cup {Block(alloc_start, l)}
                /\ op' = "alloc_ok"
                /\ ret' = Some(alloc_start)
        /\ UNCHANGED <<heap_start, heap_end, strays>>
        /\ UNCHANGED <<execVars, kbdVars, memVars, irqVars>>

\* GlobalAlloc::alloc for Locked<BumpAllocator>, under the allocator's lock.
\* kernel_main calls init_heap before anything allocates (op # "new"), and
\* nothing runs after a panic.
Alloc(l) ==
    LET alloc_start == align_up(next, l.align)
        alloc_end   == alloc_start + l.size       \* checked_add
    IN  /\ op \notin {"new", "panic"}
        /\ prev' = op
        /\ IF alloc_end > UsizeMax
           THEN \* None => return ptr::null_mut()
                /\ op' = "alloc_overflow"
                /\ ret' = Some(Null)
                /\ UNCHANGED <<next, allocations, live, balance>>
           ELSE IF alloc_end > heap_end
           THEN \* out of memory
                /\ op' = "alloc_oom"
                /\ ret' = Some(Null)
                /\ UNCHANGED <<next, allocations, live, balance>>
           ELSE /\ next' = alloc_end
                /\ allocations' = (allocations + 1) % UsizeRange
                /\ balance' = balance + 1
                /\ live' = live \cup {Block(alloc_start, l)}
                /\ op' = "alloc_ok"
                /\ ret' = Some(alloc_start)
        /\ UNCHANGED <<heap_start, heap_end, strays>>
        /\ UNCHANGED <<execVars, kbdVars, memVars, irqVars>>

\* Mutant of Dealloc: the cursor is reset on every call.
DeallocAlwaysReset(b) ==
    /\ b \in live
    /\ prev' = op
    /\ allocations' = (allocations + UsizeRange - 1) % UsizeRange
    /\ balance' = balance - 1
    /\ next' = heap_start
    /\ op' = IF allocations' = 0 THEN "dealloc_reset" ELSE "dealloc"
    /\ live' = live \ {b}
    /\ ret' = None
    /\ UNCHANGED <<heap_start, heap_end, strays>>
    /\ UNCHANGED <<execVars, kbdVars, memVars, irqVars>>

\* Mutant of Dealloc: the cursor is never reset.
DeallocNoReset(b) ==
    /\ b \in live
    /\ prev' = op
    /\ allocations' = (allocations + UsizeRange - 1) % UsizeRange
    /\ balance' = balance - 1
    /\ op' = IF allocations' = 0 THEN "dealloc_reset" ELSE "dealloc"
    /\ live' = live \ {b}
    /\ ret' = None
    /\ UNCHANGED <<heap_start, heap_end, next, strays>>
    /\ UNCHANGED <<execVars, kbdVars, memVars, irqVars>>

\* Mutant of dealloc: a call that finds allocations at 0 returns without
\* touching the allocator.
dealloc_checked ==
    /\ prev' = op
    /\ balance' = balance - 1
    /\ ret' = None
    /\ IF allocations = 0
       THEN /\ op' = "dealloc"
            /\ UNCHANGED <<allocations, next>>
       ELSE /\ allocations' = allocations - 1
            /\ IF allocations' = 0
               THEN /\ next' = heap_start
                    /\ op' = "dealloc_reset"
               ELSE /\ op' = "dealloc"
                    /\ UNCHANGED next
    /\ UNCHANGED <<heap_start, heap_end>>

\* The body of GlobalAlloc::dealloc, under the allocator's lock; ptr and
\* layout are not read.  `bump.allocations -= 1` at 0 overflows usize: a
\* build with overflow checks panics there, a build without them wraps to
\* usize::MAX.
dealloc ==
    /\ prev' = op
    /\ balance' = balance - 1
    /\ ret' = None
    /\ \/ /\ allocations = 0
          /\ op' = "panic"
          /\ UNCHANGED <<allocations, next>>
       \/ /\ allocations' = (allocations + UsizeRange - 1) % UsizeRange
          /\ IF allocations' = 0
             THEN /\ next' = heap_start
                  /\ op' = "dealloc_reset"
             ELSE /\ op' = IF allocations = 0 THEN "dealloc_wrapped" ELSE "dealloc"
                  /\ UNCHANGED next
    /\ UNCHANGED <<heap_start, heap_end>>

\* GlobalAlloc::dealloc, called (as its contract requires) for a block that
\* alloc returned and that was not freed since
Dealloc(b) ==
    /\ b \in live
    /\ op # "panic"
    /\ dealloc
    /\ live' = live \ {b}
    /\ UNCHANGED strays
    /\ UNCHANGED <<execVars, kbdVars, memVars, irqVars>>

\* GlobalAlloc::dealloc called against its contract, for a pointer that is
\* not a live allocation (a second free of a block, or a free when nothing
\* is allocated)
DeallocNotLive ==
    /\ op \notin {"new", "panic"}
    /\ strays < MaxStray
    /\ strays' = strays + 1
    /\ dealloc
    /\ UNCHANGED live
    /\ UNCHANGED <<execVars, kbdVars, memVars, irqVars>>

(***************************************************************************)
(* Specifications                                                          *)
(***************************************************************************)
ExecStep ==
    \/ \E t \in Tasks : Spawn(t)
    \/ StartRun
    \/ RunPop
    \/ PollAbstract
    \/ MatchReady
    \/ MatchPending

KbdStep ==
    \/ KbdNewAlloc
    \/ KbdPoll
    \/ PnPop1
    \/ PnRegister
    \/ PnPop2
    \/ PnTake
    \/ PrintKey

\* the executor alone, with the abstract tasks A, B, C
InitExec ==
    /\ ExecInit(AbstractTasks, [AbstractTasks -> 0..MaxPend])
    /\ KbdInit
    /\ IrqInit
    /\ BumpNew
    /\ MemInit({BootMemoryMap(MaxUsable, MaxUsable)}, {BootTablesEmpty})

NextExec == ExecStep

SpecExec == InitExec /\ [][NextExec]_vars

\* the heap: init_heap on a memory map with frames to spare, then any calls of
\* alloc and dealloc that respect the GlobalAlloc contract
InitAlloc ==
    /\ ExecInit(AbstractTasks, {[t \in AbstractTasks |-> 0]})
    /\ KbdInit
    /\ IrqInit
    /\ BumpNew
    /\ MemInit({BootMemoryMap(MaxUsable, MaxUsable)}, {BootTablesEmpty})

NextAlloc ==
    \/ InitHeapAlloc
    \/ InitHeapMap
    \/ BumpInit
    \/ \E l \in Layouts : Alloc(l)
    \/ \E b \in live : Dealloc(b)

SpecAlloc == InitAlloc /\ [][NextAlloc]_vars

\* the heap with callers that do not keep to the contract of dealloc; the
\* layouts they ask for are a few small ones
FreeLayouts == {l \in Layouts : l.align <= 2 /\ l.size \in {1, 3}}

NextFree ==
    \/ InitHeapAlloc
    \/ InitHeapMap
    \/ BumpInit
    \/ \E l \in FreeLayouts : Alloc(l)
    \/ \E b \in live : Dealloc(b)
    \/ DeallocNotLive

SpecFree == InitAlloc /\ [][NextFree]_vars

\* kernel_main: the keyboard task (and one abstract task) under the executor,
\* with keyboard interrupts
InitBridge ==
    /\ ExecInit({KbdTask, "A"},
                {[t \in AbstractTasks |-> IF t = "A" THEN k ELSE 0] : k \in 0..MaxPend})
    /\ KbdInit
    /\ IrqInit
    /\ BumpNew
    /\ MemInit({BootMemoryMap(MaxUsable, MaxUsable)}, {BootTablesEmpty})

MainStep == ExecStep \/ KbdStep

NextBridge ==
    \/ MainStep
    \/ \E b \in Scancodes : keypress_interrupt_handler(b)

SpecBridge == InitBridge /\ [][NextBridge]_vars

\* the main thread runs whenever no interrupt handler does
FairBridge == SpecBridge /\ WF_vars(MainStep)

\* the frame allocator alone: any calls of allocate_frame on any memory map
InitFrames ==
    /\ ExecInit(AbstractTasks, {[t \in AbstractTasks |-> 0]})
    /\ KbdInit
    /\ IrqInit
    /\ BumpNew
    /\ MemInit(MemoryMaps, {BootTablesEmpty})

NextFrames == AllocateFrameCall

SpecFrames == InitFrames /\ [][NextFrames]_vars

\* kernel_main up to init_heap, on any of the bootloader's memory maps and
\* page tables, with translate_addr called at any time
InitHeap ==
    /\ ExecInit(AbstractTasks, {[t \in AbstractTasks |-> 0]})
    /\ KbdInit
    /\ IrqInit
    /\ BumpNew
    /\ MemInit(BootMemoryMaps, BootTables)

NextHeap ==
    \/ InitHeapAlloc
    \/ InitHeapMap
    \/ BumpInit
    \/ \E a \in VirtAddrs : TranslateAddr(a)

SpecHeap == InitHeap /\ [][NextHeap]_vars

\* translate_addr alone, on page tables with entries of every kind at every
\* level
InitWalk ==
    /\ ExecInit(AbstractTasks, {[t \in AbstractTasks |-> 0]})
    /\ KbdInit
    /\ IrqInit
    /\ BumpNew
    /\ MemInit({BootMemoryMap(MaxUsable, MaxUsable)}, WalkTables)

NextWalk == \E a \in VirtAddrs : TranslateAddr(a)

SpecWalk == InitWalk /\ [][NextWalk]_vars

(***************************************************************************)
(* Properties of the event bridge (SpecBridge, FairBridge)                 *)
(***************************************************************************)
\* the byte popped by the recheck and not yet returned
InFlight == held

AddScancodeStep == Len(outcomes') = Len(outcomes) + 1

\* C1: in every interleaving of add_scancode and poll_next, the bytes returned
\* as Ready are a prefix of the bytes successfully pushed, in push order
\* (nothing duplicated, reordered or invented), and every pushed byte not yet
\* returned is still held by the bridge: the bytes that never arrive are
\* exactly those whose push was refused (queue full or uninitialized).
C1_DeliveredIsPrefixOfPushed ==
    /\ IsPrefix(delivered, pushed)
    /\ pushed = delivered \o InFlight \o queue
    /\ Len(pushed) = Cardinality({i \in 1..Len(outcomes) : outcomes[i] = "pushed"})

C1_Witness ==
    /\ Len(delivered) >= 2
    /\ delivered[1] # delivered[2]
    /\ Len(outcomes) > Len(pushed)

\* C2: no lost wakeup.  A push that succeeds after the fast path found the
\* queue empty and before WAKER.register makes that poll's recheck pop the
\* item (the oldest byte not yet returned) and the poll return Ready; and
\* poll_next never returns Pending while an item pushed before its
\* registration is still in the queue.
C2_NoLostWakeup ==
    /\ []((pc = "pending" /\ cur = KbdTask)
            => (~raced /\ Len(pushed) - Len(queue) >= regMark))
    /\ [][(raced /\ pc = "pn_pop2" /\ pc' # pc)
            => (pc' = "pn_take" /\ held' = Some(pushed[Len(delivered) + 1]))]_vars
    /\ [][(pc = "pn_take" /\ pc' # pc)
            => delivered' = delivered \o held]_vars

C2_Witness == raced /\ pc = "pn_take" /\ held = Some(pushed[Len(pushed)])

\* C3: liveness.  Whenever the keyboard task has registered its waker and
\* returned Pending and the queue is non-empty, the executor eventually polls
\* the task again and that poll returns the oldest queued byte.
C3_ConsumerEventuallyPolled ==
    \A n \in 0..MaxPush :
        (kbdPhase = "waiting" /\ queue # <<>> /\ Len(delivered) = n)
            ~> (Len(delivered) > n /\ delivered[n + 1] = pushed[n + 1]
                /\ kbdPhase # "waiting")

C3_Witness ==
    /\ kbdPhase = "repolled"
    /\ Len(delivered) > regMark
    /\ "A" \in Range(task_queue)

\* C4: overflow drops the newest.  add_scancode on a queue holding Capacity
\* items discards the new byte and leaves the queue's contents and order
\* unchanged; the queue never holds more than Capacity items; and the consumer
\* takes the queued items oldest first.
C4_OverflowDropsNewest ==
    /\ [](Len(queue) <= Capacity)
    /\ [][(AddScancodeStep /\ queueInit /\ Len(queue) = Capacity)
            => (/\ queue' = queue
                /\ pushed' = pushed
                /\ outcomes'[Len(outcomes')] = "full")]_vars
    /\ [][(Len(queue') < Len(queue))
            => (/\ queue' = Tail(queue)
                /\ \/ delivered' = Append(delivered, Head(queue))
                   \/ held' = Some(Head(queue)))]_vars

C4_Witness ==
    /\ \E i \in 1..Len(outcomes) : outcomes[i] = "full"
    /\ Len(delivered) = Capacity
    /\ delivered = pushed
    /\ queue = <<>>

\* C5: add_scancode before ScancodeStream::new has initialized the queue drops
\* the byte with the "uninitialized" diagnostic, leaves the queue
\* uninitialized, does not touch the waker, and the byte is never delivered
\* (it is not among the pushed bytes, the only ones a consumer ever gets).
C5_UninitDrops ==
    /\ [][(AddScancodeStep /\ ~queueInit)
            => (/\ outcomes'[Len(outcomes')] = "uninit"
                /\ ~queueInit'
                /\ queue' = queue
                /\ waker' = waker
                /\ pushed' = pushed
                /\ delivered' = delivered)]_vars
    /\ [](Len(delivered) + Len(queue) + Len(InFlight)
            <= Cardinality({i \in 1..Len(outcomes) : outcomes[i] = "pushed"}))

C5_Witness ==
    /\ Len(outcomes) >= 2
    /\ outcomes[1] = "uninit"
    /\ Len(delivered) = 1
    /\ Len(pushed) = 1

(***************************************************************************)
(* Properties of the executor (SpecExec)                                   *)
(***************************************************************************)
\* t completes before u: fewer Pending results, or as many and spawned earlier
RoundRobinBefore(t, u) ==
    \/ pend0[t] < pend0[u]
    \/ /\ pend0[t] = pend0[u]
       /\ IndexOf(spawned, t) < IndexOf(spawned, u)

\* C10: executor FIFO.  spawn appends to the tail, run polls the head, a
\* Pending task is re-appended to the tail; so tasks complete in round-robin
\* arrival order, and A, B, C spawned in that order, each Pending exactly
\* once before Ready, complete in the order A, B, C.
C10_ExecutorFifo ==
    /\ [][(spawned' # spawned)
            => \E t \in Tasks : /\ spawned' = Append(spawned, t)
                                /\ task_queue' = Append(task_queue, t)]_vars
    /\ [][(cur = NoTask /\ cur' # NoTask)
            => (cur' = Head(task_queue) /\ task_queue' = Tail(task_queue))]_vars
    /\ [][(pc = "pending" /\ pc' # pc)
            => task_queue' = Append(task_queue, cur)]_vars
    /\ [](\A i, j \in 1..Len(completed) :
            i < j => RoundRobinBefore(completed[i], completed[j]))
    /\ []((/\ pc = "done"
           /\ spawned = <<"A", "B", "C">>
           /\ \A t \in AbstractTasks : pend0[t] = 1)
            => completed = <<"A", "B", "C">>)

C10_Witness ==
    /\ pc = "done"
    /\ spawned = <<"A", "B", "C">>
    /\ \A t \in AbstractTasks : pend0[t] = 1
    /\ completed = <<"A", "B", "C">>

(***************************************************************************)
(* Properties of the bump allocator (SpecAlloc)                            *)
(***************************************************************************)
AllocOps == {"alloc_ok", "alloc_oom", "alloc_overflow"}

BlockEnd(b) == b.start + b.size

Disjoint(b1, b2) == BlockEnd(b1) <= b2.start \/ BlockEnd(b2) <= b1.start

\* C6: after init and after every alloc or dealloc, in any sequence,
\* heap_start <= next <= heap_end.
C6_CursorInBounds == heap_start <= next /\ next <= heap_end

C6_Witness ==
    /\ op = "alloc_ok"
    /\ prev \in {"dealloc", "dealloc_reset"}
    /\ next = heap_end
    /\ heap_start < heap_end

\* C7: any two blocks live at the same time are disjoint and lie inside
\* [heap_start, heap_end); a successful alloc never hands out memory that
\* overlaps a block still in use.
C7_NoOverlap ==
    /\ [](\A b \in live : heap_start <= b.start /\ BlockEnd(b) <= heap_end)
    /\ [](\A b1, b2 \in live : b1 # b2 => Disjoint(b1, b2))
    /\ [][(op' = "alloc_ok" /\ next' # next)
            => (/\ Cardinality(live') = Cardinality(live) + 1
                /\ \A b \in live : \A n \in live' \ live : Disjoint(b, n))]_vars

C7_Witness ==
    /\ op = "alloc_ok"
    /\ Cardinality(live) >= 2
    /\ \A b \in live : b.start # heap_start

\* C8 as claimed: whenever a dealloc brings the live count to 0 the cursor is
\* reset to heap_start, and the next alloc call returns heap_start.
C8_Original ==
    /\ (op = "dealloc_reset" => (allocations = 0 /\ next = heap_start))
    /\ ((prev = "dealloc_reset" /\ op \in AllocOps) => ret = Some(heap_start))

\* C8 as amended: whenever a dealloc brings the live count to 0 the cursor is
\* reset to heap_start, and the next alloc call returns heap_start if it
\* succeeds; it succeeds exactly when the size is at most the heap's size and
\* heap_start is a multiple of the alignment, and returns null otherwise.
C8_FullReclamation ==
    /\ [](op = "dealloc_reset" => (allocations = 0 /\ next = heap_start))
    /\ [][(op' \in {"dealloc", "dealloc_reset"} /\ live' # live)
            => (op' = "dealloc_reset" <=> allocations' = 0)]_vars
    /\ []((prev = "dealloc_reset" /\ op = "alloc_ok") => ret = Some(heap_start))
    /\ []((prev = "dealloc_reset" /\ op \in AllocOps /\ op # "alloc_ok")
            => (ret = Some(Null) /\ next = heap_start /\ allocations = 0))
    /\ [][\A l \in Layouts :
            (op = "dealloc_reset" /\ Alloc(l))
                => (op' = "alloc_ok"
                      <=> (l.size <= heap_end - heap_start
                           /\ heap_start % l.align = 0))]_vars

C8_Witness ==
    /\ prev = "dealloc_reset"
    /\ op = "alloc_ok"
    /\ ret = Some(heap_start)
    /\ allocations = 1

\* C9: an alloc whose aligned start plus size overflows usize or exceeds
\* heap_end returns null and leaves heap_start, heap_end, next and the
\* allocation count unchanged (the cursor is not advanced, not even by the
\* alignment padding).
AllocFails(l) ==
    \/ align_up(next, l.align) + l.size > UsizeMax
    \/ align_up(next, l.align) + l.size > heap_end

C9_ExhaustionLeavesState ==
    /\ [][\A l \in Layouts :
            (op' \in AllocOps /\ AllocFails(l) /\ Alloc(l))
                => (/\ ret' = Some(Null)
                    /\ op' \in {"alloc_oom", "alloc_overflow"}
                    /\ UNCHANGED <<heap_start, heap_end, next, allocations, live>>)]_vars
    /\ [][(op' \in {"alloc_oom", "alloc_overflow"})
            => UNCHANGED <<heap_start, heap_end, next, allocations>>]_vars

C9_Witness ==
    /\ prev = "alloc_overflow"
    /\ op = "alloc_oom"
    /\ ret = Some(Null)
    /\ heap_start < next
    /\ next < heap_end
    /\ next % 2 = 1

(***************************************************************************)
(* Termination of SimpleExecutor::run (FairBridge)                         *)
(***************************************************************************)
RunReturned == pc = "done"

\* C11: SimpleExecutor::run returns exactly when its run queue has become
\* empty: it has returned only if the queue is empty and every spawned task
\* reported Ready; with an empty queue (in particular when nothing was spawned)
\* its next step is to return; when every spawned task eventually reports
\* Ready it does return; and it never returns once the keyboard task, whose
\* stream never ends, is among the spawned tasks.
C11_RunReturnsIffQueueEmpty ==
    /\ [](RunReturned => /\ task_queue = <<>>
                         /\ cur = NoTask
                         /\ Range(completed) = Range(spawned))
    /\ [][pc = "loop" /\ task_queue = <<>> /\ pc' # pc => RunReturned']_vars
    /\ [][RunReturned' /\ ~RunReturned => pc = "loop" /\ task_queue = <<>>]_vars
    /\ [](KbdTask \in Range(spawned) => ~RunReturned)
    /\ ((pc = "loop" /\ KbdTask \notin Range(spawned)) ~> RunReturned)

\* run has returned after a task that reported Pending first reported Ready
C11_Witness ==
    /\ RunReturned
    /\ spawned = <<"A">>
    /\ completed = <<"A">>
    /\ pend0["A"] > 0

(***************************************************************************)
(* Properties of the frame allocator (SpecFrames)                          *)
(***************************************************************************)
FramesOf(r) == r.start..(r.end - 1)

\* the precondition of C12: no frame lies in two usable regions of the map
UsableDisjoint(mm) ==
    \A i, j \in 1..Len(mm) :
        i < j /\ mm[i].usable /\ mm[j].usable => FramesOf(mm[i]) \cap FramesOf(mm[j]) = {}

\* C12: over any sequence of allocate_frame calls on a memory map whose usable
\* regions are disjoint, no two calls return the same frame, every returned
\* frame lies in a region marked Usable, and once a call has returned None
\* every later call returns None.
C12_FramesUniqueAndExhaustionSticky ==
    UsableDisjoint(memory_map) =>
        /\ \A i, j \in 1..Len(fa_results) :
               i < j /\ fa_results[i] # None /\ fa_results[j] # None
                   => fa_results[i] # fa_results[j]
        /\ \A i \in 1..Len(fa_results) :
               fa_results[i] # None
                   => \E k \in 1..Len(memory_map) :
                          /\ memory_map[k].usable
                          /\ fa_results[i][1] \in FramesOf(memory_map[k])
        /\ \A i, j \in 1..Len(fa_results) :
               i < j /\ fa_results[i] = None => fa_results[j] = None

\* two usable regions, the second below the first, were handed out completely
\* and two more calls returned None
C12_Witness ==
    /\ UsableDisjoint(memory_map)
    /\ Len(memory_map) = 2
    /\ memory_map[1].usable /\ memory_map[2].usable
    /\ memory_map[2].start < memory_map[2].end
    /\ memory_map[2].end <= memory_map[1].start
    /\ memory_map[1].start < memory_map[1].end
    /\ Cardinality({i \in 1..Len(fa_results) : fa_results[i] # None}) >= 2
    /\ Cardinality({i \in 1..Len(fa_results) : fa_results[i] = None}) >= 2

(***************************************************************************)
(* Properties of init_heap and of address translation (SpecHeap)           *)
(***************************************************************************)
\* the addresses of a page
AddrsOfPage(pg) == {pg * PAGE_SIZE + off : off \in 0..(PAGE_SIZE - 1)}

\* what translate_addr has to return for address a of a page mapped to frame f
Translated(f, a) == Some(f * PAGE_SIZE + page_offset(a))

\* C13: once map_to has mapped a page to a frame (creating the intermediate
\* tables that were missing), translate_addr on every address of that page
\* returns the frame's start address plus the address's page offset: in every
\* state, for every page mapped so far, and for every call of translate_addr
\* made on such an address.
C13_TranslateRoundTrip ==
    /\ [](\A i \in 1..Len(mapped) : \A a \in AddrsOfPage(mapped[i].page) :
             LET t == translate_addr_inner(tables, a)
             IN  t.res = "some" /\ t.addr = Translated(mapped[i].frame, a))
    /\ [][tr' # tr =>
             \A i \in 1..Len(mapped) :
                 tr'[1].addr \in AddrsOfPage(mapped[i].page)
                     => /\ tr'[1].out.res = "some"
                        /\ tr'[1].out.addr = Translated(mapped[i].frame, tr'[1].addr)]_vars

\* translate_addr was called on an address with a non-zero offset in the second
\* heap page, mapped after three page tables had been created for the first
C13_Witness ==
    /\ Len(mapped) = 2
    /\ Len(fa_results) = 5
    /\ tr # None
    /\ tr[1].addr \in AddrsOfPage(mapped[2].page)
    /\ page_offset(tr[1].addr) > 0
    /\ tr[1].out.addr = Translated(mapped[2].frame, tr[1].addr)

InitHeapFailed == ih_result \notin {None, Some("Ok")}

\* the frame allocator has reported exhaustion
FramesExhausted == \E i \in 1..Len(fa_results) : fa_results[i] = None

\* C14 as stated: init_heap's only outcomes are success and out-of-frames.
C14_Original ==
    ih_result \in {None, Some("Ok"), Some("FrameAllocationFailed")}

\* C14 (amended): when the frame allocator reports exhaustion for a page of
\* the heap range (for the page itself or for a page table it needs),
\* init_heap returns FrameAllocationFailed at that page: the pages before it
\* are mapped, no later page is, and nothing is mapped afterwards.  Besides
\* success and FrameAllocationFailed, init_heap returns the other errors of
\* map_to (PageAlreadyMapped, ParentEntryHugePage) in the same way.  Whenever
\* it fails the bump allocator stays uninitialized: it is initialized exactly
\* when init_heap returns Ok.
C14_InitHeapFailure ==
    /\ [](ih_result \in {None, Some("Ok"), Some("FrameAllocationFailed"),
                         Some("PageAlreadyMapped"), Some("ParentEntryHugePage")})
    /\ [](FramesExhausted <=> ih_result = Some("FrameAllocationFailed"))
    /\ [](InitHeapFailed =>
             /\ ih_pc = "returned"
             /\ op = "new"
             /\ ih_page < Len(HeapPages)
             /\ mapped = [i \in 1..ih_page |->
                             [page |-> HeapPages[i], frame |-> mapped[i].frame]])
    /\ [](op # "new" <=> ih_result = Some("Ok"))
    /\ [][InitHeapFailed => UNCHANGED <<tables, mapped, fa_results, ih_result, allocVars>>]_vars

\* init_heap mapped the first page of the heap and ran out of frames at the
\* second
C14_Witness ==
    /\ ih_result = Some("FrameAllocationFailed")
    /\ Len(mapped) = 1
    /\ fa_results[Len(fa_results)] = None
    /\ op = "new"

\* the pages that cover [HEAP_START, HEAP_START + HEAP_SIZE - 1]
HeapRangePages == {PageOf(a) : a \in HEAP_START..(HEAP_START + HEAP_SIZE - 1)}

\* the level 1 entry the tables hold for a page
LeafOf(pg) == translate_addr_inner(tables, pg * PAGE_SIZE)

\* C15: whenever the bump allocator is initialized, every page of the
\* inclusive page range covering [HEAP_START, HEAP_START + HEAP_SIZE - 1] is
\* mapped present and writable, each to a physical frame of its own; the
\* allocator is never initialized while a page of the range is unmapped, and
\* it becomes initialized only by the step of init_heap that follows the
\* mapping loop.
C15_HeapMappedWhenInitialized ==
    /\ [](op # "new" =>
             /\ \A pg \in HeapRangePages :
                    /\ LeafOf(pg).res = "some"
                    /\ LeafOf(pg).leaf.present
                    /\ LeafOf(pg).leaf.writable
             /\ \A pg, ph \in HeapRangePages :
                    pg # ph => LeafOf(pg).leaf.frame # LeafOf(ph).leaf.frame)
    /\ [][op = "new" /\ op' # "new" => ih_pc = "init" /\ ih_page = Len(HeapPages)]_vars

\* the allocator is initialized over a heap of two pages whose frames come
\* from two regions of the memory map
C15_Witness ==
    /\ op = "init"
    /\ heap_start = HEAP_START
    /\ Cardinality(HeapRangePages) = 2
    /\ Len(mapped) = 2
    /\ mapped[1].frame \in FramesOf(memory_map[2])
    /\ mapped[2].frame \in FramesOf(memory_map[4])

(***************************************************************************)
(* Properties of the interrupt handler and the waker slot (SpecBridge)     *)
(***************************************************************************)
InSeq(x, q) == \E i \in 1..Len(q) : q[i] = x

Count(x, q) == Cardinality({i \in 1..Len(q) : q[i] = x})

HandlerStep == irqs' # irqs

LastOutcome == outcomes[Len(outcomes)]

\* C16: the keyboard interrupt handler and add_scancode never request the
\* ALLOCATOR lock, on any path (pushed, full, uninitialized); so a handler
\* invocation that preempts the main thread while it holds that lock inside
\* alloc never spins on it and runs to its end-of-interrupt.
C16_ProducerNeverAllocates ==
    /\ [](~InSeq("ALLOCATOR", irqTrace) /\ ~InSeq("ALLOCATOR", prodLocks))
    /\ [](blocked # Some("ALLOCATOR"))
    /\ [][HandlerStep /\ allocLocked => blocked' = None /\ eoi' = eoi + 1]_vars

\* a handler invocation preempted the main thread inside ArrayQueue::new, with
\* the ALLOCATOR lock held, took the uninitialized path and returned
C16_Witness ==
    /\ "ALLOCATOR" \in irqHeld
    /\ LastOutcome = "uninit"
    /\ eoi = irqs
    /\ allocLocked

\* the locks that code running with interrupts enabled may be holding
PreemptibleLocks ==
    {"ALLOCATOR"} \cup (IF ConsoleLockPreemptible THEN {"CONSOLE"} ELSE {})

C18_OneCallThenOneEoi ==
    /\ [](irqs = Len(outcomes) /\ eoi = irqs)
    /\ [][HandlerStep => /\ irqs' = irqs + 1
                         /\ Len(outcomes') = Len(outcomes) + 1
                         /\ LastOutcome' \in {"pushed", "full", "uninit"}
                         /\ eoi' = eoi + 1]_vars
    /\ [](irqTrace # <<>> =>
             /\ Count("add_scancode", irqTrace) = 1
             /\ Count("add_scancode_ret", irqTrace) = 1
             /\ Count("eoi", irqTrace) = 1
             /\ IndexOf(irqTrace, "add_scancode") < IndexOf(irqTrace, "add_scancode_ret")
             /\ IndexOf(irqTrace, "add_scancode_ret") < IndexOf(irqTrace, "eoi")
             /\ irqTrace[Len(irqTrace)] = "eoi")

\* three invocations, the last of which dropped its scancode, sent three
\* end-of-interrupts
C18_Witness ==
    /\ irqs = 3
    /\ eoi = 3
    /\ InSeq("pushed", outcomes)
    /\ LastOutcome = "full"
    /\ irqTrace[Len(irqTrace)] = "eoi"

\* C19: each successful push makes exactly one call of WAKER.wake() and a
\* dropped push makes none; a wake empties the slot, so the registration made
\* by one register is notified at most once; the slot is a single cell that
\* holds no waker or one.
C19_OneWakePerPush ==
    /\ [](wakes = Len(pushed))
    /\ [][AddScancodeStep =>
             /\ LastOutcome' = "pushed" => wakes' = wakes + 1 /\ waker' = NoWaker
             /\ LastOutcome' # "pushed" => wakes' = wakes /\ waker' = waker]_vars
    /\ [](regWoken <= 1)
    /\ [](waker \in {NoWaker, DummyWaker})
    /\ [](waker = DummyWaker => regWoken = 0)

\* a registration was notified by the first of two pushes, not by the second,
\* and a third scancode was dropped without a wake
C19_Witness ==
    /\ wakes = 2
    /\ regWoken = 1
    /\ outcomes = <<"pushed", "pushed", "full">>

\* C20: when the first pop of poll_next finds a byte, poll_next returns it
\* and leaves the waker slot as it was (nothing is registered); when the first
\* pop is empty and the pop after register finds a byte, poll_next empties the
\* slot with WAKER.take() before it returns Ready with that byte, so the slot
\* then holds no registration of that poll.
C20_PollPaths ==
    /\ [][pc = "pn_pop1" /\ queue # <<>> /\ pc' # pc =>
             /\ delivered' = Append(delivered, Head(queue))
             /\ lastPath' = "fast"
             /\ waker' = waker
             /\ regMark' = regMark
             /\ pc' = "print"]_vars
    /\ [][pc = "pn_pop2" /\ queue # <<>> /\ pc' # pc =>
             /\ pc' = "pn_take"
             /\ delivered' = delivered]_vars
    /\ [][pc = "pn_take" /\ pc' # pc =>
             /\ delivered' = delivered \o held
             /\ lastPath' = "recheck"
             /\ waker' = NoWaker
             /\ pc' = "print"]_vars
    /\ [](lastPath # "none" <=> pc = "print")

\* after an earlier byte, a byte was returned by the recheck, which found
\* the registration of its poll still in the slot and cleared it
C20_Witness ==
    /\ Len(delivered) >= 2
    /\ lastPath = "recheck"
    /\ pc = "print"
    /\ waker = NoWaker
    /\ regWoken = 0

(***************************************************************************)
(* The waker slot and the executor (SpecBridge)                            *)
(***************************************************************************)
\* a step of SimpleExecutor::spawn / run itself (not of a task's poll)
ExecutorStep ==
    /\ pc \in {"spawn", "loop", "ready", "pending"}
    /\ execVars' # execVars

\* run() pops the keyboard task again after its poll_next returned Pending
ResumeStep ==
    /\ pc = "loop"
    /\ pc' = "poll"
    /\ cur' = KbdTask
    /\ kbdPhase = "waiting"

\* C21 as stated: the registration in the waker slot is consumed and cleared
\* by the executor, and the executor polls the waiting task again because
\* the signal was given.
C21_Original ==
    /\ [][waker = DummyWaker /\ waker' = NoWaker => ExecutorStep]_vars
    /\ [][ResumeStep => regWoken > 0]_vars

\* C21: the registration in the waker slot is cleared only by the producer's
\* WAKER.wake() after a successful push or by poll_next's own WAKER.take();
\* no step of the executor reads or changes the slot, and a wake changes
\* nothing of the executor (its waker is a no-op).  The executor polls the
\* waiting task again because run() put it back at the tail of the queue:
\* whenever run() is at the head of its loop with a task queued it pops and
\* polls the head, whatever the slot holds and whether or not a wake came.
C21_SlotClearedByProducerOrConsumer ==
    /\ [][waker = DummyWaker /\ waker' = NoWaker =>
             \/ HandlerStep /\ LastOutcome' = "pushed"
             \/ pc = "pn_take"]_vars
    /\ [][ExecutorStep => waker' = waker /\ regWoken' = regWoken /\ wakes' = wakes]_vars
    /\ [][HandlerStep => UNCHANGED execVars]_vars
    /\ [][pc = "loop" /\ task_queue # <<>> /\ pc' # pc =>
             pc' = "poll" /\ cur' = Head(task_queue)]_vars
    /\ [](kbdPhase = "waiting" /\ pc = "loop" => InSeq(KbdTask, task_queue))

\* the keyboard task was polled again while its registration was still in
\* the slot and no wake had ever been given
C21_Witness ==
    /\ kbdPhase = "repolled"
    /\ cur = KbdTask
    /\ waker = DummyWaker
    /\ wakes = 0

(***************************************************************************)
(* Properties of translate_addr (SpecWalk)                                 *)
(***************************************************************************)
\* entry.frame() is Ok
EntryOk(e) == e.present /\ ~e.huge

\* the first of the entries P4, P3, P2, P1 on the path of address a whose
\* frame() is not Ok, and its level 1..4; level 5 when all four are Ok
Stop(tabs, a) ==
    LET i  == table_indexes(a)
        e1 == tabs[Cr3Frame][i[1]]
    IN  IF ~EntryOk(e1) THEN [level |-> 1, entry |-> e1]
        ELSE LET e2 == tabs[e1.frame][i[2]]
        IN  IF ~EntryOk(e2) THEN [level |-> 2, entry |-> e2]
        ELSE LET e3 == tabs[e2.frame][i[3]]
        IN  IF ~EntryOk(e3) THEN [level |-> 3, entry |-> e3]
        ELSE LET e4 == tabs[e3.frame][i[4]]
        IN  IF ~EntryOk(e4) THEN [level |-> 4, entry |-> e4]
        ELSE [level |-> 5, entry |-> e4]

\* C22: translate_addr reads the entries of P4, P3, P2, P1 in that order.  At
\* the first level whose entry is not present it returns None, having read
\* one entry per level down to that one and none after it; at the first
\* level whose entry is present with the huge flag it panics instead of
\* returning; it returns Some only after reading exactly four entries, all of
\* them present and not huge.
C22_WalkFourLevels ==
    tr # None =>
        LET out == tr[1].out
            st  == Stop(tables, tr[1].addr)
        IN  /\ out.res \in {"some", "none", "panic"}
            /\ out.reads \in 1..4
            /\ (out.res = "some") <=> (st.level = 5)
            /\ out.res = "some" => out.reads = 4 /\ out.addr # None
            /\ st.level <= 4 /\ ~st.entry.present =>
                   out.res = "none" /\ out.addr = None /\ out.reads = st.level
            /\ st.level <= 4 /\ st.entry.present /\ st.entry.huge =>
                   out.res = "panic" /\ out.addr = None /\ out.reads = st.level
            /\ out.res # "some" => out.leaf = st.entry

\* translate_addr panicked at P2 after reading P4 and P3; the tables below
\* the huge entry were not read
C22_Witness ==
    /\ tr # None
    /\ tr[1].out.res = "panic"
    /\ tr[1].out.reads = 2
    /\ tables[1][HeapIdx[2]] = HugeEntry(2)
    /\ ~tables[2][HeapIdx[3]].present

(***************************************************************************)
(* The result of a successful alloc (SpecAlloc)                            *)
(***************************************************************************)
\* a is the smallest multiple of align that is >= addr
SmallestMultipleFrom(a, addr, align) ==
    /\ a % align = 0
    /\ a >= addr
    /\ \A m \in addr..(a - 1) : m % align # 0

\* C23: when alloc succeeds for a layout whose alignment is a power of two,
\* the address it returns is the smallest multiple of the alignment that is
\* not below the cursor before the call (the addition in align_up does not
\* pass usize::MAX from any cursor the allocator reaches), the cursor after
\* the call is that address plus the layout's size, and allocations is one
\* more than before.
C23_AllocResult ==
    /\ [][\A l \in Layouts :
            (op' = "alloc_ok" /\ Alloc(l))
                => (/\ ret' # None
                    /\ ret' # Some(Null)
                    /\ SmallestMultipleFrom(ret'[1], next, l.align)
                    /\ next' = ret'[1] + l.size
                    /\ allocations' = allocations + 1
                    /\ live' = live \cup {Block(ret'[1], l)})]_vars
    /\ [](\A al \in Aligns : next + al - 1 <= UsizeMax)

\* the second of two live blocks was returned by a call that had to skip
\* bytes to reach its alignment
C23_Witness ==
    /\ op = "alloc_ok"
    /\ allocations = 2
    /\ ret # None
    /\ ret[1] # heap_start
    /\ \E b \in live : b.start = ret[1] /\ BlockEnd(b) = next
    /\ ~\E c \in live : BlockEnd(c) = ret[1]

(***************************************************************************)
(* The allocations counter (SpecFree)                                      *)
(***************************************************************************)
\* a step of dealloc, for a live block or not
DeallocStep == balance' = balance - 1

\* C24: allocations is the number of successful alloc calls minus the number
\* of dealloc calls, as a usize.  As long as every dealloc call was for a
\* live allocation it is that number itself, it is the number of live
\* allocations, and no dealloc call finds it at 0.  A dealloc call for a
\* block that is not live is not rejected: when it finds the counter at 0 the
\* subtraction overflows usize, which panics in a build with overflow checks
\* and otherwise leaves the counter at usize::MAX with the cursor untouched.
C24_CounterBalance ==
    /\ [](op # "panic" => allocations = balance % UsizeRange)
    /\ [](strays = 0 =>
             /\ allocations = balance
             /\ balance >= 0
             /\ balance = Cardinality(live))
    /\ [][DeallocStep /\ strays' = 0 =>
             allocations >= 1 /\ allocations' = allocations - 1]_vars
    /\ [][DeallocStep /\ allocations = 0 =>
             /\ strays' >= 1
             /\ \/ op' = "panic" /\ allocations' = allocations
                \/ /\ op' = "dealloc_wrapped"
                   /\ allocations' = UsizeMax
                   /\ balance' < 0
                   /\ next' = next]_vars

\* a block was allocated and freed, which reset the cursor, and freed again:
\* the counter wrapped
C24_Witness ==
    /\ prev = "dealloc_reset"
    /\ op = "dealloc_wrapped"
    /\ allocations = UsizeMax
    /\ balance = 0 - 1
    /\ strays = 1

(***************************************************************************)
(* Run-queue integrity (SpecExec)                                          *)
(***************************************************************************)
\* the tasks the executor holds: those in task_queue and the one run() popped
Held(t) == Count(t, task_queue) + (IF cur = t THEN 1 ELSE 0)

\* C25: every task that was spawned and has not returned Ready is held by
\* the executor exactly once, either once in task_queue or as the one task
\* run() has popped and is polling; a task that returned Ready is held
\* nowhere and is never popped again; the executor holds nothing that was not
\* spawned, and at most one task is being polled.
C25_RunQueueIntegrity ==
    /\ [](\A t \in Tasks :
            /\ InSeq(t, spawned) /\ ~InSeq(t, completed) => Held(t) = 1
            /\ InSeq(t, completed) => Held(t) = 0 /\ Count(t, completed) = 1
            /\ ~InSeq(t, spawned) => Held(t) = 0 /\ ~InSeq(t, completed)
            /\ Count(t, spawned) <= 1)
    /\ [](cur # NoTask <=> pc \in {"poll", "ready", "pending"})
    /\ [](cur \in Tasks \cup {NoTask})
    /\ [][cur' # cur /\ cur' # NoTask => ~InSeq(cur', completed)]_vars
    /\ [][completed' # completed => completed' = Append(completed, cur) /\ pc = "ready"]_vars

\* a task that was Pending before is being polled again while another task
\* has completed and a third waits in the queue
C25_Witness ==
    /\ pc = "poll"
    /\ pendLeft[cur] < pend0[cur]
    /\ Len(completed) >= 1
    /\ Len(task_queue) >= 1

====
